---------------------------- MODULE Spec2Model ----------------------------
(***************************************************************************)
(* A model of the mesh subsystem of ggez (src/graphics/mesh.rs): the       *)
(* GPU-resident Mesh with its grow-only buffers and its identity value,    *)
(* and the MeshBuilder that accumulates tessellated geometry; and of the   *)
(* main loop of src/game.rs.                                               *)
(*                                                                         *)
(* Four specifications share the module's variables:                      *)
(*   Spec        Mesh operations, one action per call (a call runs under   *)
(*               &mut self, so no other code sees its intermediate states) *)
(*   ConcSpec    the same operations run by independent threads, one mesh  *)
(*               per thread, interleaved at the only shared access: the    *)
(*               atomic fetch_add on NEXT_MESH_ID                          *)
(*   BuilderSpec the MeshBuilder's shape-emission calls                    *)
(*   RunSpec     game::run, one action per statement of its loop, with the *)
(*               events arriving from outside                              *)
(***************************************************************************)
EXTENDS Naturals, Integers, Sequences, FiniteSets, TLC

\* ------------------------------------------------------------------ bounds

\* The number of meshes (and, in ConcSpec, of threads).
MaxMeshes == 2
\* The longest slice passed to Mesh::new / set_vertices / set_indices.
MaxLen == 2
\* The number of identity values minted in one run; NEXT_MESH_ID is a usize
\* and wraps only after 2^64 increments, which no run of the model reaches.
MaxId == 3
\* The longest slice a thread of ConcSpec passes.
ConcMaxLen == 1
\* The longest point list passed to a MeshBuilder call.
MaxPts == 3
\* The most vertices a MeshBuilder accumulates.
MaxVerts == 6
\* The most MeshData views held at a time.
MaxViews == 2
\* The most triangles passed to one MeshBuilder::triangles call.
MaxTris == 2
\* The number of events that arrive during one run of the main loop.
MaxEvents == 2
\* The number of iterations of the main loop that one run starts.
MaxFrames == 3

\* ------------------------------------------------------------------ state

VARIABLES
    NEXT_MESH_ID,   \* the process-wide AtomicUsize
    meshes,         \* the meshes constructed so far: mesh number -> Mesh
    next_buffer,    \* the device's next fresh buffer object
    last,           \* the most recent call and its arguments
    issued,         \* every value fetch_add has returned, in order
    stats,          \* how many constructions and reallocations ran
    pc,             \* ConcSpec: each thread's position
    call,           \* ConcSpec: each thread's current (or last) call
    pre,            \* ConcSpec: each thread's mesh as its call found it
    local,          \* ConcSpec: the fields of a Mesh under construction
    buffer,         \* BuilderSpec: the MeshBuilder's VertexBuffers
    result,         \* BuilderSpec: what the last builder call returned
    bcall,          \* BuilderSpec: the last builder call and its arguments
    views,          \* BuilderSpec: the MeshData views borrowed from the builder
    tess_ok,        \* BuilderSpec: FALSE when the tessellation service answers
                    \* the last call's request, if it makes one, with a failure
    run_pc,         \* RunSpec: the statement of run that is next
    continuing,     \* RunSpec: run's local `continuing`
    sdl_events,     \* RunSpec: the events waiting in the event pump
    frame,          \* RunSpec: what the current iteration has called so far
    run_result,     \* RunSpec: what run returned
    counts          \* RunSpec: the iterations started, the events arrived

vars == <<NEXT_MESH_ID, meshes, next_buffer, last, issued, stats,
          pc, call, pre, local, buffer, result, bcall, views, tess_ok,
          run_pc, continuing, sdl_events, frame, run_result, counts>>

meshVars == <<NEXT_MESH_ID, meshes, next_buffer, last, issued, stats,
              pc, call, pre, local>>

builderVars == <<buffer, result, bcall, views, tess_ok>>

runVars == <<run_pc, continuing, sdl_events, frame, run_result, counts>>

MeshIds == 1..MaxMeshes

\* A Vertex and a u32 index as far as Mesh is concerned: opaque elements that
\* are copied into buffers.
VertexVals == {"v"}
IndexVals == {0}

RECURSIVE SeqsUpTo(_, _)
SeqsUpTo(S, n) ==
    IF n = 0 THEN {<<>>}
    ELSE LET shorter == SeqsUpTo(S, n - 1)
         IN shorter \cup {Append(s, x) : s \in {t \in shorter : Len(t) = n - 1}, x \in S}

VertexSlices == SeqsUpTo(VertexVals, MaxLen)
IndexSlices == SeqsUpTo(IndexVals, MaxLen)

\* ---------------------------------------------------------- the device

\* device.create_buffer_init: a new buffer object holding exactly `contents`.
create_buffer_init(handle, contents) ==
    [handle |-> handle, size |-> Len(contents), data |-> contents]

\* queue.write_buffer(buf, 0, data): overwrites the buffer from offset 0.
write_buffer(buf, data) ==
    [buf EXCEPT !.data = data \o SubSeq(@, Len(data) + 1, Len(@))]

\* ---------------------------------------------------------------- Mesh
\* The operations are functions of a context c: the mesh (self), the global
\* counter, the device's allocator, and the bookkeeping of what ran.

Ctx(self) ==
    [self |-> self, NEXT_MESH_ID |-> NEXT_MESH_ID, next_buffer |-> next_buffer,
     issued |-> issued, stats |-> stats]

\* A bug: the counter is read (load) where it should be fetched and added to.
fetch_add_load(c) == [c EXCEPT !.issued = Append(@, c.NEXT_MESH_ID)]

\* NEXT_MESH_ID.fetch_add(1, SeqCst): one atomic step; c.NEXT_MESH_ID before
\* the step is the value returned.
fetch_add(c) ==
    [c EXCEPT !.NEXT_MESH_ID = @ + 1, !.issued = Append(@, c.NEXT_MESH_ID)]

fetched(c) == c.NEXT_MESH_ID

\* Mesh::create_verts / Mesh::create_inds: one fresh buffer each.
create_verts(c, vertices) == create_buffer_init(c.next_buffer, vertices)

create_inds(c, indices) == create_buffer_init(c.next_buffer, indices)

allocated(c) == [c EXCEPT !.next_buffer = @ + 1]

\* A bug: inds_capacity is given the vertices' length.
new_fields_swapped(c, vertices, indices) ==
    LET c1 == allocated(c)
        c2 == allocated(c1)
    IN [c2 EXCEPT !.self = [verts |-> create_verts(c, vertices),
                            inds |-> create_inds(c1, indices),
                            verts_capacity |-> Len(vertices),
                            inds_capacity |-> Len(vertices),
                            vertex_count |-> Len(vertices),
                            index_count |-> Len(indices)],
                  !.stats.constructions = @ + 1]

\* Mesh::new, the fields in the order the struct expression evaluates them,
\* up to the id.
new_fields(c, vertices, indices) ==
    LET c1 == allocated(c)
        c2 == allocated(c1)
    IN [c2 EXCEPT !.self = [verts |-> create_verts(c, vertices),
                            inds |-> create_inds(c1, indices),
                            verts_capacity |-> Len(vertices),
                            inds_capacity |-> Len(indices),
                            vertex_count |-> Len(vertices),
                            index_count |-> Len(indices)],
                  !.stats.constructions = @ + 1]

\* Mesh::new's last field: id: NEXT_MESH_ID.fetch_add(1, SeqCst).
new_id(c) ==
    [fetch_add(c) EXCEPT !.self = [verts |-> c.self.verts,
                                   inds |-> c.self.inds,
                                   verts_capacity |-> c.self.verts_capacity,
                                   inds_capacity |-> c.self.inds_capacity,
                                   vertex_count |-> c.self.vertex_count,
                                   index_count |-> c.self.index_count,
                                   id |-> fetched(c)]]

Mesh_new(c, vertices, indices) == new_id(new_fields(c, vertices, indices))

\* Mesh::from_data(gfx, data) = Self::new(gfx, &data.vertices, &data.indices)
Mesh_from_data(c, data) == Mesh_new(c, data.vertices, data.indices)

\* A bug: the fetched value is not stored in self.id.
update_id_not_stored(c) == fetch_add(c)

\* Mesh::update_id
update_id(c) == [fetch_add(c) EXCEPT !.self.id = fetched(c)]

\* A bug: the capacity is not raised when the buffer is replaced.
set_vertices_body_keeps_capacity(c, vertices) ==
    LET c1 == [c EXCEPT !.self.vertex_count = Len(vertices)]
    IN IF Len(vertices) > c1.self.verts_capacity
       THEN [realloc |-> TRUE,
             c |-> [allocated(c1) EXCEPT
                        !.self.verts = create_verts(c1, vertices),
                        !.stats.reallocations = @ + 1]]
       ELSE [realloc |-> FALSE,
             c |-> [c1 EXCEPT !.self.verts = write_buffer(@, vertices)]]

\* A bug: >= where the code compares with >.
set_vertices_body_ge(c, vertices) ==
    LET c1 == [c EXCEPT !.self.vertex_count = Len(vertices)]
    IN IF Len(vertices) >= c1.self.verts_capacity
       THEN [realloc |-> TRUE,
             c |-> [allocated(c1) EXCEPT
                        !.self.verts_capacity = Len(vertices),
                        !.self.verts = create_verts(c1, vertices),
                        !.stats.reallocations = @ + 1]]
       ELSE [realloc |-> FALSE,
             c |-> [c1 EXCEPT !.self.verts = write_buffer(@, vertices)]]

\* A bug: the capacity follows the length on an in-place write too.
set_vertices_body_shrinks(c, vertices) ==
    LET c1 == [c EXCEPT !.self.vertex_count = Len(vertices)]
    IN IF Len(vertices) > c1.self.verts_capacity
       THEN [realloc |-> TRUE,
             c |-> [allocated(c1) EXCEPT
                        !.self.verts_capacity = Len(vertices),
                        !.self.verts = create_verts(c1, vertices),
                        !.stats.reallocations = @ + 1]]
       ELSE [realloc |-> FALSE,
             c |-> [c1 EXCEPT !.self.verts_capacity = Len(vertices),
                              !.self.verts = write_buffer(@, vertices)]]

\* A bug: the reallocating branch raises the index capacity.
set_vertices_body_inds_capacity(c, vertices) ==
    LET c1 == [c EXCEPT !.self.vertex_count = Len(vertices)]
    IN IF Len(vertices) > c1.self.verts_capacity
       THEN [realloc |-> TRUE,
             c |-> [allocated(c1) EXCEPT
                        !.self.verts_capacity = Len(vertices),
                        !.self.inds_capacity = Len(vertices),
                        !.self.verts = create_verts(c1, vertices),
                        !.stats.reallocations = @ + 1]]
       ELSE [realloc |-> FALSE,
             c |-> [c1 EXCEPT !.self.verts = write_buffer(@, vertices)]]

\* Mesh::set_vertices up to (not including) its call of update_id;
\* .realloc tells which branch ran.
set_vertices_body(c, vertices) ==
    LET c1 == [c EXCEPT !.self.vertex_count = Len(vertices)]
    IN IF Len(vertices) > c1.self.verts_capacity
       THEN [realloc |-> TRUE,
             c |-> [allocated(c1) EXCEPT
                        !.self.verts_capacity = Len(vertices),
                        !.self.verts = create_verts(c1, vertices),
                        !.stats.reallocations = @ + 1]]
       ELSE [realloc |-> FALSE,
             c |-> [c1 EXCEPT !.self.verts = write_buffer(@, vertices)]]

\* A bug: the reallocating branch does not call update_id.
Mesh_set_vertices_no_update_id(c, vertices) == set_vertices_body(c, vertices).c

\* Mesh::set_vertices
Mesh_set_vertices(c, vertices) ==
    LET b == set_vertices_body(c, vertices)
    IN IF b.realloc THEN update_id(b.c) ELSE b.c

\* A bug: the length is compared with the vertex capacity.
set_indices_body_verts_capacity(c, indices) ==
    LET c1 == [c EXCEPT !.self.index_count = Len(indices)]
    IN IF Len(indices) > c1.self.verts_capacity
       THEN [realloc |-> TRUE,
             c |-> [allocated(c1) EXCEPT
                        !.self.inds_capacity = Len(indices),
                        !.self.inds = create_inds(c1, indices),
                        !.stats.reallocations = @ + 1]]
       ELSE [realloc |-> FALSE,
             c |-> [c1 EXCEPT !.self.inds = write_buffer(@, indices)]]

\* A bug: the index capacity is not raised when the buffer is replaced.
set_indices_body_keeps_capacity(c, indices) ==
    LET c1 == [c EXCEPT !.self.index_count = Len(indices)]
    IN IF Len(indices) > c1.self.inds_capacity
       THEN [realloc |-> TRUE,
             c |-> [allocated(c1) EXCEPT
                        !.self.inds = create_inds(c1, indices),
                        !.stats.reallocations = @ + 1]]
       ELSE [realloc |-> FALSE,
             c |-> [c1 EXCEPT !.self.inds = write_buffer(@, indices)]]

\* Mesh::set_indices up to its call of update_id.
set_indices_body(c, indices) ==
    LET c1 == [c EXCEPT !.self.index_count = Len(indices)]
    IN IF Len(indices) > c1.self.inds_capacity
       THEN [realloc |-> TRUE,
             c |-> [allocated(c1) EXCEPT
                        !.self.inds_capacity = Len(indices),
                        !.self.inds = create_inds(c1, indices),
                        !.stats.reallocations = @ + 1]]
       ELSE [realloc |-> FALSE,
             c |-> [c1 EXCEPT !.self.inds = write_buffer(@, indices)]]

\* A bug: update_id is called on the in-place branch too.
Mesh_set_indices_always_update_id(c, indices) ==
    update_id(set_indices_body(c, indices).c)

\* Mesh::set_indices
Mesh_set_indices(c, indices) ==
    LET b == set_indices_body(c, indices)
    IN IF b.realloc THEN update_id(b.c) ELSE b.c

\* ------------------------------------------------- Spec: one action per call

\* No mesh: what Mesh::new starts from.
NoSelf == [none |-> TRUE]

NoCall == [op |-> "none", m |-> 0, nv |-> 0, ni |-> 0]

Init ==
    /\ NEXT_MESH_ID = 0
    /\ meshes = <<>>
    /\ next_buffer = 1
    /\ last = NoCall
    /\ issued = <<>>
    /\ stats = [constructions |-> 0, reallocations |-> 0]
    /\ pc = [t \in MeshIds |-> "idle"]
    /\ call = [t \in MeshIds |-> NoCall]
    /\ pre = [t \in MeshIds |-> NoSelf]
    /\ local = [t \in MeshIds |-> NoSelf]
    /\ buffer = [vertices |-> <<>>, indices |-> <<>>]
    /\ result = [tag |-> "Ok", msg |-> ""]
    /\ bcall = [op |-> "new", mode |-> "none", points |-> <<>>, color |-> "none",
                tolerance |-> 1]
    /\ views = <<>>
    /\ tess_ok = TRUE
    /\ run_pc = "event_pump"
    /\ continuing = TRUE
    /\ sdl_events = <<>>
    /\ frame = <<>>
    /\ run_result = [tag |-> "none", msg |-> ""]
    /\ counts = [frames |-> 0, events |-> 0]

\* What a call on mesh m leaves behind: c is the context the call returned.
Globals(c) ==
    /\ NEXT_MESH_ID' = c.NEXT_MESH_ID
    /\ next_buffer' = c.next_buffer
    /\ issued' = c.issued
    /\ stats' = c.stats

Commit(m, c) ==
    /\ c.NEXT_MESH_ID <= MaxId
    /\ meshes' = (m :> c.self) @@ meshes
    /\ Globals(c)

FreshMesh == Cardinality(DOMAIN meshes) + 1

New ==
    \E vertices \in VertexSlices, indices \in IndexSlices :
        /\ FreshMesh \in MeshIds
        /\ Commit(FreshMesh, Mesh_new(Ctx(NoSelf), vertices, indices))
        /\ last' = [op |-> "new", m |-> FreshMesh,
                    nv |-> Len(vertices), ni |-> Len(indices)]
        /\ UNCHANGED <<pc, call, pre, local, builderVars, runVars>>

FromData ==
    \E data \in [vertices : VertexSlices, indices : IndexSlices] :
        /\ FreshMesh \in MeshIds
        /\ Commit(FreshMesh, Mesh_from_data(Ctx(NoSelf), data))
        /\ last' = [op |-> "from_data", m |-> FreshMesh,
                    nv |-> Len(data.vertices), ni |-> Len(data.indices)]
        /\ UNCHANGED <<pc, call, pre, local, builderVars, runVars>>

SetVertices ==
    \E m \in DOMAIN meshes, vertices \in VertexSlices :
        /\ Commit(m, Mesh_set_vertices(Ctx(meshes[m]), vertices))
        /\ last' = [op |-> "set_vertices", m |-> m,
                    nv |-> Len(vertices), ni |-> 0]
        /\ UNCHANGED <<pc, call, pre, local, builderVars, runVars>>

SetIndices ==
    \E m \in DOMAIN meshes, indices \in IndexSlices :
        /\ Commit(m, Mesh_set_indices(Ctx(meshes[m]), indices))
        /\ last' = [op |-> "set_indices", m |-> m,
                    nv |-> 0, ni |-> Len(indices)]
        /\ UNCHANGED <<pc, call, pre, local, builderVars, runVars>>

Next == New \/ FromData \/ SetVertices \/ SetIndices

Spec == Init /\ [][Next]_vars

\* ------------------------------------ ConcSpec: one thread per mesh
\* Thread t owns mesh t. A call's steps on its own mesh and on buffers it
\* alone holds are invisible to the other threads; the one shared access is
\* the fetch_add, which is a step of its own. A call ends at "ret", where
\* call[t] still holds its arguments and pre[t] the mesh as it found it.

Threads == MeshIds

ConcVertexSlices == SeqsUpTo(VertexVals, ConcMaxLen)
ConcIndexSlices == SeqsUpTo(IndexVals, ConcMaxLen)

\* The fetch_add steps that calls already under way will still take.
Pending == Cardinality({t \in Threads : pc[t] \in {"new_id", "update_id"}})

CanMint == NEXT_MESH_ID + Pending < MaxId

\* Mesh::new, lines 71-76: the buffers and the lengths.
T_new_fields(t) ==
    \E vertices \in ConcVertexSlices, indices \in ConcIndexSlices :
        /\ pc[t] = "idle" /\ t \notin DOMAIN meshes
        /\ CanMint
        /\ LET c == new_fields(Ctx(NoSelf), vertices, indices)
           IN /\ Globals(c)
              /\ local' = [local EXCEPT ![t] = c.self]
        /\ pc' = [pc EXCEPT ![t] = "new_id"]
        /\ call' = [call EXCEPT ![t] = [op |-> "new", m |-> t,
                                        nv |-> Len(vertices), ni |-> Len(indices)]]
        /\ UNCHANGED <<meshes, pre, last, builderVars, runVars>>

\* Mesh::new, line 77: the id; the Mesh exists from here on.
T_new_id(t) ==
    /\ pc[t] = "new_id"
    /\ Commit(t, new_id(Ctx(local[t])))
    /\ pc' = [pc EXCEPT ![t] = "ret"]
    /\ local' = [local EXCEPT ![t] = NoSelf]
    /\ UNCHANGED <<call, pre, last, builderVars, runVars>>

\* Mesh::set_vertices, lines 89-92 or 89-101.
T_set_vertices(t) ==
    \E vertices \in ConcVertexSlices :
        /\ pc[t] = "idle" /\ t \in DOMAIN meshes
        /\ LET b == set_vertices_body(Ctx(meshes[t]), vertices)
           IN /\ b.realloc => CanMint
              /\ Commit(t, b.c)
              /\ pc' = [pc EXCEPT ![t] = IF b.realloc THEN "update_id" ELSE "ret"]
        /\ call' = [call EXCEPT ![t] = [op |-> "set_vertices", m |-> t,
                                        nv |-> Len(vertices), ni |-> 0]]
        /\ pre' = [pre EXCEPT ![t] = meshes[t]]
        /\ UNCHANGED <<local, last, builderVars, runVars>>

\* Mesh::set_indices, lines 107-110 or 107-119.
T_set_indices(t) ==
    \E indices \in ConcIndexSlices :
        /\ pc[t] = "idle" /\ t \in DOMAIN meshes
        /\ LET b == set_indices_body(Ctx(meshes[t]), indices)
           IN /\ b.realloc => CanMint
              /\ Commit(t, b.c)
              /\ pc' = [pc EXCEPT ![t] = IF b.realloc THEN "update_id" ELSE "ret"]
        /\ call' = [call EXCEPT ![t] = [op |-> "set_indices", m |-> t,
                                        nv |-> 0, ni |-> Len(indices)]]
        /\ pre' = [pre EXCEPT ![t] = meshes[t]]
        /\ UNCHANGED <<local, last, builderVars, runVars>>

\* Mesh::update_id, called at line 93 or 111.
T_update_id(t) ==
    /\ pc[t] = "update_id"
    /\ Commit(t, update_id(Ctx(meshes[t])))
    /\ pc' = [pc EXCEPT ![t] = "ret"]
    /\ UNCHANGED <<call, pre, local, last, builderVars, runVars>>

\* The call returns to the thread's caller.
T_return(t) ==
    /\ pc[t] = "ret"
    /\ pc' = [pc EXCEPT ![t] = "idle"]
    /\ call' = [call EXCEPT ![t] = NoCall]
    /\ pre' = [pre EXCEPT ![t] = NoSelf]
    /\ UNCHANGED <<NEXT_MESH_ID, meshes, next_buffer, issued, stats, local, last,
                   builderVars, runVars>>

ConcNext ==
    \E t \in Threads :
        \/ T_new_fields(t)
        \/ T_new_id(t)
        \/ T_set_vertices(t)
        \/ T_set_indices(t)
        \/ T_update_id(t)
        \/ T_return(t)

ConcSpec == Init /\ [][ConcNext]_vars

\* ------------------------------------------------------- MeshBuilder
\* A point is (x, y); a Color is named; a DrawMode is Fill(options) or
\* Stroke(options), of which only the variant decides anything here.

\* The i-th point of a list, all distinct, none with x = y.
Pt(i) == <<i, i + 1>>

PointList(n) == [i \in 1..n |-> Pt(i)]

Points == {Pt(1)}
Colors == {"White", "Red"}
Modes == {"Fill", "Stroke"}
Tolerances == {-1, 0, 1}
Rects == {[x |-> 0, y |-> 0, w |-> 1, h |-> 2]}

PointLists == {PointList(n) : n \in 0..MaxPts}

\* The lists passed to triangles: up to MaxTris whole triangles, and the
\* lengths between them.
TriPointLists == {PointList(n) : n \in 0..(3 * MaxTris)}

Ok == [tag |-> "Ok", msg |-> ""]
Err(msg) == [tag |-> "Err", msg |-> msg]
Panic(msg) == [tag |-> "panic", msg |-> msg]

\* LinearColor::from(color), and LinearColor's into() [f32; 4]: the colour's
\* linear encoding, which is not the Color itself.
LinearColor_from(color) == <<"linear", color>>

\* VertexBuilder::new_vertex (the inherent method triangles uses)
new_vertex(vb, position) ==
    [position |-> position, uv |-> position, color |-> vb.color]

\* A bug: the stroke constructor copies the inherent new_vertex, position
\* as UV.
stroke_new_vertex_position_uv(vb, position) ==
    [position |-> position, uv |-> position, color |-> vb.color]

\* <VertexBuilder as StrokeVertexConstructor>::new_vertex
stroke_new_vertex(vb, position) ==
    [position |-> position, uv |-> <<0, 0>>, color |-> vb.color]

\* <VertexBuilder as FillVertexConstructor>::new_vertex
fill_new_vertex(vb, position) ==
    [position |-> position, uv |-> <<0, 0>>, color |-> vb.color]

\* The tessellation service (lyon), a black box: it fails, or it hands the
\* BuffersBuilder some vertices and whole triangles over them. An output is
\* [ok, positions, triangles], a triangle being three 0-based numbers of the
\* output's own vertices.
Fan(n) == [i \in 1..(IF n >= 3 THEN n - 2 ELSE 0) |-> <<0, i, i + 1>>]

TessFailure == [ok |-> FALSE, positions |-> <<>>, triangles |-> <<>>]

TessNothing == [ok |-> TRUE, positions |-> <<>>, triangles |-> <<>>]

TessOutputs(positions) ==
    {TessFailure, TessNothing,
     [ok |-> TRUE, positions |-> positions, triangles |-> Fan(Len(positions))]}

Corners(r) == <<<<r.x, r.y>>, <<r.x + r.w, r.y>>,
                <<r.x + r.w, r.y + r.h>>, <<r.x, r.y + r.h>>>>

RECURSIVE Flatten(_)
Flatten(triangles) ==
    IF triangles = <<>> THEN <<>> ELSE Head(triangles) \o Flatten(Tail(triangles))

\* tessellator.tessellate_*(.., &mut BuffersBuilder::new(buffers, vb)): the
\* output's vertices go through the mode's vertex constructor, its indices
\* are offset by the vertex count the call found; a failed tessellation
\* leaves the buffers as they were.
tessellate(buffers, mode, vb, out) ==
    IF ~out.ok THEN [ok |-> FALSE, buffer |-> buffers]
    ELSE LET base == Len(buffers.vertices)
             flat == Flatten(out.triangles)
         IN [ok |-> TRUE,
             buffer |->
               [vertices |-> buffers.vertices \o
                    [i \in 1..Len(out.positions) |->
                        IF mode = "Fill"
                        THEN fill_new_vertex(vb, out.positions[i])
                        ELSE stroke_new_vertex(vb, out.positions[i])],
                indices |-> buffers.indices \o
                    [i \in 1..Len(flat) |-> base + flat[i]]]]

\* MeshBuilder::polyline_with_vertex_builder
polyline_with_vertex_builder(self, mode, points, is_closed, vb, out) ==
    IF ~(Len(points) > 1)
    THEN [buffer |-> self, result |-> Panic("assertion failed: points.len() > 1")]
    ELSE LET t == tessellate(self, mode, vb, out)
         IN IF t.ok THEN [buffer |-> t.buffer, result |-> Ok]
            ELSE [buffer |-> t.buffer, result |-> Err("tessellation")]

\* MeshBuilder::polyline_inner
polyline_inner(self, mode, points, is_closed, color, out) ==
    polyline_with_vertex_builder(self, mode, points, is_closed,
                                 [color |-> LinearColor_from(color)], out)

\* MeshBuilder::polyline
polyline(self, mode, points, color, out) ==
    IF Len(points) < 2
    THEN [buffer |-> self,
          result |-> Err("MeshBuilder::polyline() got a list of < 2 points")]
    ELSE polyline_inner(self, mode, points, FALSE, color, out)

\* A bug: polygon checks for polyline's minimum of 2 points.
polygon_min2(self, mode, points, color, out) ==
    IF Len(points) < 2
    THEN [buffer |-> self,
          result |-> Err("MeshBuilder::polygon() got a list of < 3 points")]
    ELSE polyline_inner(self, mode, points, TRUE, color, out)

\* MeshBuilder::polygon
polygon(self, mode, points, color, out) ==
    IF Len(points) < 3
    THEN [buffer |-> self,
          result |-> Err("MeshBuilder::polygon() got a list of < 3 points")]
    ELSE polyline_inner(self, mode, points, TRUE, color, out)

\* MeshBuilder::line: DrawMode::stroke(width) is a Stroke mode.
line(self, points, width, color, out) ==
    polyline(self, "Stroke", points, color, out)

\* A bug: the assertion lets a tolerance of 0 through.
circle_accepts_zero(self, mode, point, radius, tolerance, color, out) ==
    IF ~(tolerance >= 0)
    THEN [buffer |-> self, result |-> Panic("Tolerances <= 0 are invalid")]
    ELSE [buffer |-> tessellate(self, mode, [color |-> LinearColor_from(color)], out).buffer,
          result |-> Ok]

\* MeshBuilder::circle: the tessellator's result is dropped (let _ =).
circle(self, mode, point, radius, tolerance, color, out) ==
    IF ~(tolerance > 0)
    THEN [buffer |-> self, result |-> Panic("Tolerances <= 0 are invalid")]
    ELSE [buffer |-> tessellate(self, mode, [color |-> LinearColor_from(color)], out).buffer,
          result |-> Ok]

\* MeshBuilder::ellipse
ellipse(self, mode, point, radius1, radius2, tolerance, color, out) ==
    IF ~(tolerance > 0)
    THEN [buffer |-> self, result |-> Panic("Tolerances <= 0 are invalid")]
    ELSE [buffer |-> tessellate(self, mode, [color |-> LinearColor_from(color)], out).buffer,
          result |-> Ok]

\* MeshBuilder::rectangle
rectangle(self, mode, bounds, color, out) ==
    [buffer |-> tessellate(self, mode, [color |-> LinearColor_from(color)], out).buffer,
     result |-> Ok]

\* MeshBuilder::rounded_rectangle
rounded_rectangle(self, mode, bounds, radius, color, out) ==
    [buffer |-> tessellate(self, mode, [color |-> LinearColor_from(color)], out).buffer,
     result |-> Ok]

\* A bug: the second index is pushed twice.
push_tri_repeats_index(self, tri, vb) ==
    LET first_index == Len(self.vertices)
    IN [vertices |-> self.vertices \o
            <<new_vertex(vb, tri[1]), new_vertex(vb, tri[2]),
              new_vertex(vb, tri[3])>>,
        indices |-> self.indices \o
            <<first_index, first_index + 1, first_index + 1>>]

\* A bug: first_index is read after the first vertex was pushed.
push_tri_one_based(self, tri, vb) ==
    LET first_index == Len(self.vertices) + 1
    IN [vertices |-> self.vertices \o
            <<new_vertex(vb, tri[1]), new_vertex(vb, tri[2]),
              new_vertex(vb, tri[3])>>,
        indices |-> self.indices \o
            <<first_index, first_index + 1, first_index + 2>>]

\* A bug: the index base is the number of indices, not of vertices.
push_tri_index_base(self, tri, vb) ==
    LET first_index == Len(self.indices)
    IN [vertices |-> self.vertices \o
            <<new_vertex(vb, tri[1]), new_vertex(vb, tri[2]),
              new_vertex(vb, tri[3])>>,
        indices |-> self.indices \o
            <<first_index, first_index + 1, first_index + 2>>]

\* MeshBuilder::triangles, the loop's body after its assertion: the three
\* vertices and the three indices of one chunk.
push_tri(self, tri, vb) ==
    LET first_index == Len(self.vertices)
    IN [vertices |-> self.vertices \o
            <<new_vertex(vb, tri[1]), new_vertex(vb, tri[2]),
              new_vertex(vb, tri[3])>>,
        indices |-> self.indices \o
            <<first_index, first_index + 1, first_index + 2>>]

\* MeshBuilder::triangles, the loop over tris.chunks(3): a chunk is three
\* points, or the shorter rest of the list.
RECURSIVE push_chunks(_, _, _)
push_chunks(self, tris, vb) ==
    IF tris = <<>> THEN [buffer |-> self, result |-> Ok]
    ELSE LET tri == SubSeq(tris, 1, IF Len(tris) < 3 THEN Len(tris) ELSE 3)
         IN IF ~(Len(tri) = 3)
            THEN [buffer |-> self, result |-> Panic("assertion failed: tri.len() == 3")]
            ELSE push_chunks(push_tri(self, tri, vb), SubSeq(tris, 4, Len(tris)), vb)

\* A bug: triangles starts "a new mesh", dropping what the builder held.
triangles_from_empty(self, tris, color) ==
    IF (Len(tris) % 3) # 0
    THEN [buffer |-> self,
          result |-> Err("Called Mesh::triangles() with points that have a length not a multiple of 3.")]
    ELSE push_chunks([vertices |-> <<>>, indices |-> <<>>], tris,
                     [color |-> LinearColor_from(color)])

\* MeshBuilder::triangles
triangles(self, tris, color) ==
    IF (Len(tris) % 3) # 0
    THEN [buffer |-> self,
          result |-> Err("Called Mesh::triangles() with points that have a length not a multiple of 3.")]
    ELSE push_chunks(self, tris, [color |-> LinearColor_from(color)])

\* A bug: the view's indices are taken from an empty slice.
build_empty_indices(self) == [vertices |-> self.vertices, indices |-> <<>>]

\* MeshBuilder::build
build(self) == [vertices |-> self.vertices, indices |-> self.indices]

\* ----------------------------------- BuilderSpec: one action per call

\* What a shape call leaves behind; o is [buffer, result]. The call borrows
\* the builder mutably, so no MeshData view of it is alive any more.
Returned(o, c, out) ==
    /\ Len(o.buffer.vertices) <= MaxVerts
    /\ buffer' = o.buffer
    /\ result' = o.result
    /\ bcall' = c
    /\ views' = <<>>
    /\ tess_ok' = out.ok
    /\ UNCHANGED <<meshVars, runVars>>

BCall(op, mode, points, color, tolerance) ==
    [op |-> op, mode |-> mode, points |-> points, color |-> color,
     tolerance |-> tolerance]

Line ==
    \E points \in PointLists, color \in Colors :
      \E out \in TessOutputs(points) :
        Returned(line(buffer, points, 1, color, out),
                 BCall("line", "Stroke", points, color, 1), out)

Polyline ==
    \E mode \in Modes, points \in PointLists, color \in Colors :
      \E out \in TessOutputs(points) :
        Returned(polyline(buffer, mode, points, color, out),
                 BCall("polyline", mode, points, color, 1), out)

Polygon ==
    \E mode \in Modes, points \in PointLists, color \in Colors :
      \E out \in TessOutputs(points) :
        Returned(polygon(buffer, mode, points, color, out),
                 BCall("polygon", mode, points, color, 1), out)

Circle ==
    \E mode \in Modes, point \in Points, tolerance \in Tolerances,
       color \in Colors :
      \E out \in TessOutputs(<<point, point, point>>) :
        Returned(circle(buffer, mode, point, 1, tolerance, color, out),
                 BCall("circle", mode, <<point>>, color, tolerance), out)

Ellipse ==
    \E mode \in Modes, point \in Points, tolerance \in Tolerances,
       color \in Colors :
      \E out \in TessOutputs(<<point, point, point>>) :
        Returned(ellipse(buffer, mode, point, 1, 1, tolerance, color, out),
                 BCall("ellipse", mode, <<point>>, color, tolerance), out)

Rectangle ==
    \E mode \in Modes, bounds \in Rects, color \in Colors :
      \E out \in TessOutputs(Corners(bounds)) :
        Returned(rectangle(buffer, mode, bounds, color, out),
                 BCall("rectangle", mode, Corners(bounds), color, 1), out)

RoundedRectangle ==
    \E mode \in Modes, bounds \in Rects, color \in Colors :
      \E out \in TessOutputs(Corners(bounds)) :
        Returned(rounded_rectangle(buffer, mode, bounds, 1, color, out),
                 BCall("rounded_rectangle", mode, Corners(bounds), color, 1), out)

Triangles ==
    \E points \in TriPointLists, color \in Colors :
        Returned(triangles(buffer, points, color),
                 BCall("triangles", "none", points, color, 1), TessNothing)

Build ==
    /\ Len(views) < MaxViews
    /\ views' = Append(views, build(buffer))
    /\ result' = Ok
    /\ bcall' = BCall("build", "none", <<>>, "none", 1)
    /\ UNCHANGED <<buffer, tess_ok, meshVars, runVars>>

BuilderNext ==
    \/ Line \/ Polyline \/ Polygon \/ Circle \/ Ellipse
    \/ Rectangle \/ RoundedRectangle \/ Triangles \/ Build

BuilderSpec == Init /\ [][BuilderNext]_vars

\* ------------------------------------------------------------ game::run
\* An SDL event as far as run's match looks at it: its variant, and the
\* keycode (an Option) or the window event it carries.

Keycodes == {"None", "Escape", "A"}

Events ==
    {[type |-> "Quit", arg |-> "-"]}
    \cup {[type |-> t, arg |-> k] : t \in {"KeyDown", "KeyUp"}, k \in Keycodes}
    \cup {[type |-> t, arg |-> "-"] :
            t \in {"MouseButtonDown", "MouseButtonUp", "MouseMotion",
                   "MouseWheel", "ControllerButtonDown", "ControllerButtonUp",
                   "ControllerAxisMotion", "TextInput"}}
    \cup {[type |-> "Window", arg |-> w] :
            w \in {"FocusGained", "FocusLost", "Resized"}}

NoResult == [tag |-> "none", msg |-> ""]

\* What the state's quit_event may answer; the trait's default answers false.
QuitAnswers == BOOLEAN

\* What a fallible call (event_pump, ctx.quit, update, draw) may return.
Outcomes(what) == {Ok, Err(what)}

\* One call run made, as the iteration's record keeps it.
Called(name, arg, ret) == [call |-> name, arg |-> arg, ret |-> ret]

Shown(b) == IF b THEN "true" ELSE "false"

\* run's locals while the for loop over the events runs: self is
\* [continuing, frame, result], result being an error run returns with.

\* A bug: a Quit event stops the loop whatever quit_event answers.
on_quit_stops(self, ret) ==
    [self EXCEPT !.continuing = FALSE,
                 !.frame = Append(@, Called("quit_event", "-", Shown(ret)))]

\* The arm Quit { .. }: continuing = state.quit_event()
on_quit(self, ret) ==
    [self EXCEPT !.continuing = ret,
                 !.frame = Append(@, Called("quit_event", "-", Shown(ret)))]

\* A bug: Escape is passed on to key_down_event after ctx.quit() returned Ok.
on_key_down_escape_passed_on(self, keycode, quit) ==
    IF keycode # "None"
    THEN IF keycode = "Escape"
         THEN IF quit.tag = "Err"
              THEN [self EXCEPT
                       !.frame = Append(@, Called("ctx.quit", "-", quit.tag)),
                       !.result = quit]
              ELSE [self EXCEPT
                       !.frame = @ \o <<Called("ctx.quit", "-", quit.tag),
                                        Called("key_down_event", keycode, "()")>>]
         ELSE [self EXCEPT
                  !.frame = Append(@, Called("key_down_event", keycode, "()"))]
    ELSE self

\* The arm KeyDown { keycode, .. }; quit is what ctx.quit() returns, were it
\* called, and the ? returns its error from run.
on_key_down(self, keycode, quit) ==
    IF keycode # "None"
    THEN IF keycode = "Escape"
         THEN [self EXCEPT !.frame = Append(@, Called("ctx.quit", "-", quit.tag)),
                           !.result = IF quit.tag = "Err" THEN quit ELSE @]
         ELSE [self EXCEPT
                  !.frame = Append(@, Called("key_down_event", keycode, "()"))]
    ELSE self

\* The arm KeyUp { keycode, .. }
on_key_up(self, keycode) ==
    IF keycode # "None"
    THEN [self EXCEPT !.frame = Append(@, Called("key_up_event", keycode, "()"))]
    ELSE self

\* The arms that pass the event to one handler and do nothing else.
on_other(self, event) ==
    LET handler(name, arg) == [self EXCEPT !.frame = Append(@, Called(name, arg, "()"))]
    IN CASE event.type = "MouseButtonDown" -> handler("mouse_button_down_event", "-")
         [] event.type = "MouseButtonUp" -> handler("mouse_button_up_event", "-")
         [] event.type = "MouseMotion" -> handler("mouse_motion_event", "-")
         [] event.type = "MouseWheel" -> handler("mouse_wheel_event", "-")
         [] event.type = "ControllerButtonDown" ->
                handler("controller_button_down_event", "-")
         [] event.type = "ControllerButtonUp" ->
                handler("controller_button_up_event", "-")
         [] event.type = "ControllerAxisMotion" -> handler("controller_axis_event", "-")
         [] event.type = "Window" /\ event.arg = "FocusGained" ->
                handler("focus_event", "true")
         [] event.type = "Window" /\ event.arg = "FocusLost" ->
                handler("focus_event", "false")
         [] OTHER -> self

\* match event { .. }, lines 84-134
dispatch(self, event, ret, quit) ==
    CASE event.type = "Quit" -> on_quit(self, ret)
      [] event.type = "KeyDown" -> on_key_down(self, event.arg, quit)
      [] event.type = "KeyUp" -> on_key_up(self, event.arg)
      [] OTHER -> on_other(self, event)

\* --------------------------------- RunSpec: one action per statement

\* run returns r.
Returns(r) ==
    /\ run_pc' = "done"
    /\ run_result' = r

\* let mut event_pump = ctx.sdl_context.event_pump()?; let mut continuing = true;
R_event_pump ==
    /\ run_pc = "event_pump"
    /\ \E r \in Outcomes("event_pump") :
          IF r.tag = "Ok"
          THEN run_pc' = "while" /\ UNCHANGED run_result
          ELSE Returns(r)
    /\ continuing' = TRUE
    /\ UNCHANGED <<sdl_events, frame, counts, meshVars, builderVars>>

\* while continuing { .. } Ok(())
R_while ==
    /\ run_pc = "while"
    /\ IF continuing
       THEN /\ counts.frames < MaxFrames
            /\ run_pc' = "tick"
            /\ frame' = <<>>
            /\ counts' = [counts EXCEPT !.frames = @ + 1]
            /\ UNCHANGED run_result
       ELSE /\ Returns(Ok)
            /\ UNCHANGED <<frame, counts>>
    /\ UNCHANGED <<continuing, sdl_events, meshVars, builderVars>>

\* ctx.timer_context.tick();
R_tick ==
    /\ run_pc = "tick"
    /\ frame' = Append(frame, Called("tick", "-", "()"))
    /\ run_pc' = "poll"
    /\ UNCHANGED <<continuing, sdl_events, run_result, counts, meshVars,
                   builderVars>>

\* A bug: run returns as soon as quit_event has answered false.
R_event_returns_on_quit ==
    /\ run_pc = "poll"
    /\ sdl_events # <<>>
    /\ \E ret \in QuitAnswers, quit \in Outcomes("ctx.quit") :
          LET self == dispatch([continuing |-> continuing, frame |-> frame,
                                result |-> NoResult],
                               Head(sdl_events), ret, quit)
          IN /\ continuing' = self.continuing
             /\ frame' = self.frame
             /\ IF self.result.tag = "Err"
                THEN Returns(self.result)
                ELSE IF Head(sdl_events).type = "Quit" /\ ~self.continuing
                     THEN Returns(Ok)
                     ELSE UNCHANGED <<run_pc, run_result>>
    /\ sdl_events' = Tail(sdl_events)
    /\ UNCHANGED <<counts, meshVars, builderVars>>

\* for event in event_pump.poll_iter() { match event { .. } }: one event
R_event ==
    /\ run_pc = "poll"
    /\ sdl_events # <<>>
    /\ \E ret \in QuitAnswers, quit \in Outcomes("ctx.quit") :
          LET self == dispatch([continuing |-> continuing, frame |-> frame,
                                result |-> NoResult],
                               Head(sdl_events), ret, quit)
          IN /\ continuing' = self.continuing
             /\ frame' = self.frame
             /\ IF self.result.tag = "Err"
                THEN Returns(self.result)
                ELSE UNCHANGED <<run_pc, run_result>>
    /\ sdl_events' = Tail(sdl_events)
    /\ UNCHANGED <<counts, meshVars, builderVars>>

\* poll_iter() has no more events: the for loop ends.
R_events_done ==
    /\ run_pc = "poll"
    /\ sdl_events = <<>>
    /\ run_pc' = "update"
    /\ UNCHANGED <<continuing, sdl_events, frame, run_result, counts, meshVars,
                   builderVars>>

\* A bug: update's result is dropped, not returned with ?.
R_update_drops_error ==
    /\ run_pc = "update"
    /\ \E r \in Outcomes("update") :
          frame' = Append(frame, Called("update", "dt", r.tag))
    /\ run_pc' = "draw"
    /\ UNCHANGED <<continuing, sdl_events, run_result, counts, meshVars,
                   builderVars>>

\* let dt = timer::get_delta(ctx); state.update(ctx, dt)?;
R_update ==
    /\ run_pc = "update"
    /\ \E r \in Outcomes("update") :
          /\ frame' = Append(frame, Called("update", "dt", r.tag))
          /\ IF r.tag = "Ok"
             THEN run_pc' = "draw" /\ UNCHANGED run_result
             ELSE Returns(r)
    /\ UNCHANGED <<continuing, sdl_events, counts, meshVars, builderVars>>

\* state.draw(ctx)?;
R_draw ==
    /\ run_pc = "draw"
    /\ \E r \in Outcomes("draw") :
          /\ frame' = Append(frame, Called("draw", "-", r.tag))
          /\ IF r.tag = "Ok"
             THEN run_pc' = "sleep" /\ UNCHANGED run_result
             ELSE Returns(r)
    /\ UNCHANGED <<continuing, sdl_events, counts, meshVars, builderVars>>

\* timer::sleep(Duration::new(0, 0)); and back to the loop's test
R_sleep ==
    /\ run_pc = "sleep"
    /\ run_pc' = "while"
    /\ UNCHANGED <<continuing, sdl_events, frame, run_result, counts, meshVars,
                   builderVars>>

\* The user, the window system or the program itself posts an event; the
\* pump hands it out at the next poll.
SdlEvent ==
    \E event \in Events :
        /\ run_pc # "done"
        /\ counts.events < MaxEvents
        /\ sdl_events' = Append(sdl_events, event)
        /\ counts' = [counts EXCEPT !.events = @ + 1]
        /\ UNCHANGED <<run_pc, continuing, frame, run_result, meshVars,
                       builderVars>>

RunNext ==
    \/ R_event_pump \/ R_while \/ R_tick \/ R_event \/ R_events_done
    \/ R_update \/ R_draw \/ R_sleep \/ SdlEvent

RunSpec == Init /\ [][RunNext]_vars

\* ------------------------------------------------------------- properties

Range(f) == {f[i] : i \in DOMAIN f}

Max(a, b) == IF a >= b THEN a ELSE b

\* The step is a call of `op` on mesh m, which existed before the call.
CallOn(op, m) == last'.op = op /\ last'.m = m /\ m \in DOMAIN meshes

\* The step is a construction (new or from_data) of mesh m.
Constructs(m) ==
    last'.op \in {"new", "from_data"} /\ last'.m = m /\ m \notin DOMAIN meshes

\* C1: whenever a call replaces a mesh's vertex or index buffer by a newly
\* allocated one, the mesh's identity value changes in that call, to a value
\* no mesh was ever given before; so two observations of a mesh with the
\* same identity see the same two buffer objects.
C1_IdentityFollowsBuffers ==
    [][\A m \in DOMAIN meshes :
          (\/ meshes'[m].verts.handle # meshes[m].verts.handle
           \/ meshes'[m].inds.handle # meshes[m].inds.handle)
          => /\ meshes'[m].id # meshes[m].id
             /\ meshes'[m].id \notin Range(issued)]_vars

\* A mesh whose vertex buffer and whose index buffer were both replaced
\* after its construction (new allocates verts, then inds).
C1_Witness ==
    \E m \in DOMAIN meshes :
        /\ meshes[m].verts.handle > meshes[m].inds.handle
        /\ meshes[m].inds.handle > 2 * m
        /\ meshes[m].id = issued[Len(issued)]

\* C2: in every state of every mesh, vertex_count <= verts_capacity and
\* index_count <= inds_capacity.
C2_CountWithinCapacity ==
    \A m \in DOMAIN meshes :
        /\ meshes[m].vertex_count <= meshes[m].verts_capacity
        /\ meshes[m].index_count <= meshes[m].inds_capacity

\* A mesh that grew by reallocation and was then given shorter slices,
\* the vertex slice empty.
C2_Witness ==
    \E m \in DOMAIN meshes :
        /\ meshes[m].verts.handle > meshes[m].inds.handle
        /\ meshes[m].vertex_count = 0
        /\ meshes[m].verts_capacity = MaxLen
        /\ meshes[m].index_count < meshes[m].inds_capacity

\* C3: when a set_vertices call whose length exceeds the capacity it found
\* returns, the capacity is that length and the identity value differs from
\* and is greater than the one the call found, whatever the other threads
\* did meanwhile.
C3_ReallocRaisesCapacityAndId ==
    \A t \in Threads :
        (/\ pc[t] = "ret"
         /\ call[t].op = "set_vertices"
         /\ call[t].nv > pre[t].verts_capacity)
        => /\ meshes[t].verts_capacity = call[t].nv
           /\ meshes[t].id # pre[t].id
           /\ meshes[t].id > pre[t].id

\* A reallocating set_vertices returns after another thread minted an
\* identity value between the call's start and its own fetch_add.
C3_Witness ==
    \E t \in Threads :
        /\ pc[t] = "ret"
        /\ call[t].op = "set_vertices"
        /\ call[t].nv > pre[t].verts_capacity
        /\ meshes[t].id > pre[t].id + 1

\* C4: a set_vertices call whose length is at most the capacity leaves the
\* capacity, the vertex buffer object and the identity value as they were,
\* and sets vertex_count to the length.
C4_InPlaceKeepsCapacityAndId ==
    [][\A m \in DOMAIN meshes :
          (CallOn("set_vertices", m) /\ last'.nv <= meshes[m].verts_capacity)
          => /\ meshes'[m].verts_capacity = meshes[m].verts_capacity
             /\ meshes'[m].verts.handle = meshes[m].verts.handle
             /\ meshes'[m].id = meshes[m].id
             /\ meshes'[m].vertex_count = last'.nv]_vars

\* The last call was a set_vertices of exactly the capacity, on a mesh whose
\* vertex buffer is still the one new allocated.
C4_Witness ==
    /\ last.op = "set_vertices"
    /\ last.nv = meshes[last.m].verts_capacity
    /\ last.nv > 0
    /\ meshes[last.m].verts.handle < meshes[last.m].inds.handle

\* C5: no two fetch_add calls return the same value, and no two meshes hold
\* the same identity value, in any interleaving of the threads.
C5_IdentitiesUnique ==
    /\ \A i, j \in DOMAIN issued : i # j => issued[i] # issued[j]
    /\ \A m1, m2 \in DOMAIN meshes : m1 # m2 => meshes[m1].id # meshes[m2].id

\* Two meshes, one of them holding an identity value minted by a
\* reallocation that ran while the other mesh was under construction.
C5_Witness ==
    /\ Cardinality(DOMAIN meshes) = 2
    /\ Len(issued) = 3
    /\ \E t \in Threads : pc[t] = "ret" /\ call[t].op = "new" /\ meshes[t].id = 1

\* C6: the vertex capacity of a mesh never decreases; new sets it to the
\* length given, set_vertices to the larger of the capacity and the length
\* given (so it is always the maximum of the lengths given so far); and
\* set_vertices changes the identity value exactly when the length exceeds
\* the capacity.
C6_GrowOnlyCapacity ==
    [][/\ \A m \in DOMAIN meshes :
             /\ meshes'[m].verts_capacity >= meshes[m].verts_capacity
             /\ CallOn("set_vertices", m) =>
                   /\ meshes'[m].verts_capacity
                        = Max(meshes[m].verts_capacity, last'.nv)
                   /\ (meshes'[m].id # meshes[m].id)
                        <=> (last'.nv > meshes[m].verts_capacity)
       /\ \A m \in MeshIds :
             Constructs(m) => meshes'[m].verts_capacity = last'.nv]_vars

\* new with 1 vertex, set_vertices with 2, then with 1: capacities 1, 2, 2
\* and one identity change.
C6_Witness ==
    /\ DOMAIN meshes = {1}
    /\ last = [op |-> "set_vertices", m |-> 1, nv |-> 1, ni |-> 0]
    /\ meshes[1].verts_capacity = 2
    /\ meshes[1].vertex_count = 1
    /\ meshes[1].verts.data = <<"v", "v">>
    /\ issued = <<0, 1>>
    /\ meshes[1].id = 1

\* C7: the counter equals the number of constructions plus reallocations
\* run so far (each advanced it by one, an in-place write by nothing), and
\* every mesh's identity value is below it.
C7_CounterCountsMints ==
    /\ NEXT_MESH_ID = stats.constructions + stats.reallocations
    /\ NEXT_MESH_ID = Len(issued)
    /\ \A m \in DOMAIN meshes : meshes[m].id < NEXT_MESH_ID

\* Constructions, a reallocation and then an in-place write of the indices.
C7_Witness ==
    /\ stats.constructions = 2
    /\ stats.reallocations = 1
    /\ last.op = "set_indices"
    /\ last.ni < meshes[last.m].inds_capacity
    /\ meshes[last.m].id < 2

\* Mesh::from_data(data) and Mesh::new(data.vertices, data.indices) return
\* the same mesh and leave the same counter and device.
FromDataIsNew ==
    \A data \in [vertices : VertexSlices, indices : IndexSlices] :
        Mesh_from_data(Ctx(NoSelf), data)
            = Mesh_new(Ctx(NoSelf), data.vertices, data.indices)

\* C8: new and from_data yield a mesh whose capacities and counts are the
\* lengths given and whose identity value is newly minted, held by no mesh
\* made before; from_data(data) yields what new(data.vertices, data.indices)
\* yields.
C8_NewSetsCapacitiesAndFreshId ==
    [][/\ FromDataIsNew
       /\ \A m \in MeshIds :
             Constructs(m) =>
                /\ meshes'[m].verts_capacity = last'.nv
                /\ meshes'[m].vertex_count = last'.nv
                /\ meshes'[m].inds_capacity = last'.ni
                /\ meshes'[m].index_count = last'.ni
                /\ meshes'[m].id \notin Range(issued)
                /\ \A o \in DOMAIN meshes : meshes'[m].id # meshes[o].id]_vars

\* A second mesh made by from_data, with different vertex and index
\* lengths, after the first mesh was reallocated.
C8_Witness ==
    /\ last.op = "from_data"
    /\ last.m = 2
    /\ last.nv # last.ni
    /\ meshes[2].id = 2
    /\ meshes[2].verts_capacity = last.nv
    /\ meshes[2].inds_capacity = last.ni

\* C9: set_indices does to (inds, inds_capacity, index_count, id) what
\* set_vertices does to the vertex side: a length of at most inds_capacity
\* leaves buffer, capacity and identity, a greater one allocates a buffer,
\* sets inds_capacity to it and mints a fresh, greater identity value;
\* index_count is the length either way.
C9_SetIndicesMirrorsSetVertices ==
    [][\A m \in DOMAIN meshes :
          CallOn("set_indices", m) =>
             /\ meshes'[m].index_count = last'.ni
             /\ last'.ni <= meshes[m].inds_capacity =>
                   /\ meshes'[m].inds_capacity = meshes[m].inds_capacity
                   /\ meshes'[m].inds.handle = meshes[m].inds.handle
                   /\ meshes'[m].id = meshes[m].id
             /\ last'.ni > meshes[m].inds_capacity =>
                   /\ meshes'[m].inds_capacity = last'.ni
                   /\ meshes'[m].inds.handle # meshes[m].inds.handle
                   /\ meshes'[m].inds.size = last'.ni
                   /\ meshes'[m].id > meshes[m].id
                   /\ meshes'[m].id \notin Range(issued)]_vars

\* The last call was a reallocating set_indices on a mesh whose vertex
\* capacity is greater than the index length given.
C9_Witness ==
    /\ last.op = "set_indices"
    /\ meshes[last.m].inds.handle > meshes[last.m].verts.handle + 1
    /\ meshes[last.m].inds_capacity = last.ni
    /\ meshes[last.m].verts_capacity > last.ni
    /\ meshes[last.m].id = issued[Len(issued)]

\* The call of the step fails validation: too few points, or a number of
\* points that is no multiple of 3.
FailsValidation(c) ==
    \/ c.op \in {"line", "polyline"} /\ Len(c.points) < 2
    \/ c.op = "polygon" /\ Len(c.points) < 3
    \/ c.op = "triangles" /\ Len(c.points) % 3 # 0

\* C10: a shape call that fails validation returns an error value and leaves
\* the builder's vertices and indices as they were.
C10_ValidationFailureLeavesBuilder ==
    [][FailsValidation(bcall') =>
          /\ result'.tag = "Err"
          /\ buffer' = buffer]_vars

\* polygon with 2 points has failed on a builder that holds geometry.
C10_Witness ==
    /\ bcall.op = "polygon"
    /\ Len(bcall.points) = 2
    /\ result.tag = "Err"
    /\ Len(buffer.vertices) >= 3
    /\ Len(buffer.indices) >= 3

\* s is the beginning of t.
IsPrefix(s, t) == Len(s) <= Len(t) /\ SubSeq(t, 1, Len(s)) = s

\* What t holds after its first n entries.
After(n, t) == SubSeq(t, n + 1, Len(t))

\* The indices are 0, 1, 2, ..., one per vertex, in whole triangles.
Sequential(b) ==
    /\ Len(b.indices) = Len(b.vertices)
    /\ Len(b.indices) % 3 = 0
    /\ \A i \in 1..Len(b.indices) : b.indices[i] = i - 1

\* C11: a builder that only triangles has appended to (it starts empty) has
\* as many indices as vertices, a multiple of 3 of them, and its indices are
\* 0, 1, 2, ... in the order the vertices were emitted, the vertices being
\* the points given, in their order.
C11_TrianglesIndicesSequential ==
    [][(bcall'.op = "triangles" /\ Sequential(buffer)) =>
          /\ Sequential(buffer')
          /\ result'.tag = "Ok" =>
                [j \in 1..Len(bcall'.points) |->
                    After(Len(buffer.vertices), buffer'.vertices)[j].position]
                  = bcall'.points]_vars

\* Two triangles calls of one triangle each, nothing else, have built
\* indices 0..5.
C11_Witness ==
    /\ bcall.op = "triangles"
    /\ Len(bcall.points) = 3
    /\ result.tag = "Ok"
    /\ buffer.indices = <<0, 1, 2, 3, 4, 5>>
    /\ \A i \in 1..6 : buffer.vertices[i].uv = buffer.vertices[i].position

WellFormed(data) ==
    /\ Len(data.indices) % 3 = 0
    /\ \A i \in 1..Len(data.indices) :
          data.indices[i] >= 0 /\ data.indices[i] < Len(data.vertices)

\* C12: every view build() returns, after any shape calls, failed ones
\* included, has a number of indices that is a multiple of 3, each index
\* below the number of vertices.
C12_MeshDataWellFormed ==
    \A k \in DOMAIN views : WellFormed(views[k])

\* A view of tessellated geometry followed by a triangle of triangles.
C12_Witness ==
    /\ Len(views) >= 1
    /\ result.tag = "Ok"
    /\ Len(views[1].vertices) = 6
    /\ views[1].indices[Len(views[1].indices)] = 5
    /\ views[1].vertices[1].uv = <<0, 0>>
    /\ views[1].vertices[6].uv = views[1].vertices[6].position

\* C13: every call leaves the vertices and the indices it found as the
\* beginning of the vertices and indices it leaves.
C13_BuilderAppendOnly ==
    [][/\ IsPrefix(buffer.vertices, buffer'.vertices)
       /\ IsPrefix(buffer.indices, buffer'.indices)]_vars

\* A tessellated shape was appended to a builder that held a triangle of
\* triangles.
C13_Witness ==
    /\ bcall.op \in {"polygon", "circle"}
    /\ result.tag = "Ok"
    /\ Len(buffer.vertices) = 6
    /\ Len(buffer.indices) = 6
    /\ buffer.vertices[1].uv = buffer.vertices[1].position
    /\ buffer.vertices[6].uv = <<0, 0>>

\* C14: build() leaves the builder's vertices and indices as they were, and
\* every view taken since the last shape call, the new one included, holds
\* exactly the builder's vertices and indices.
C14_BuildIdempotent ==
    [][bcall'.op = "build" =>
          /\ buffer' = buffer
          /\ SubSeq(views', 1, Len(views)) = views
          /\ \A k \in DOMAIN views' :
                /\ views'[k].vertices = buffer.vertices
                /\ views'[k].indices = buffer.indices]_vars

\* Two views of a builder that holds geometry.
C14_Witness ==
    /\ bcall.op = "build"
    /\ Len(views) = 2
    /\ views[1] = views[2]
    /\ Len(views[2].vertices) >= 4
    /\ Len(views[2].indices) >= 6

\* C15: circle and ellipse, in either mode, with a tolerance <= 0 panic
\* (they return neither Ok nor an error value) and leave the builder's
\* vertices and indices as they were.
C15_ToleranceAborts ==
    [][(bcall'.op \in {"circle", "ellipse"} /\ bcall'.tolerance <= 0) =>
          /\ result'.tag = "panic"
          /\ buffer' = buffer]_vars

\* A Stroke circle with tolerance 0 has panicked on a builder that holds
\* geometry.
C15_Witness ==
    /\ bcall.op = "circle"
    /\ bcall.mode = "Stroke"
    /\ bcall.tolerance = 0
    /\ result.tag = "panic"
    /\ Len(buffer.vertices) >= 3

\* The call of the step reaches its tessellate_* request: it is a shape
\* call that passes its validation and its assertion.
Tessellates(c) ==
    /\ c.op \in {"line", "polyline", "polygon", "circle", "ellipse",
                 "rectangle", "rounded_rectangle"}
    /\ ~FailsValidation(c)
    /\ c.op \in {"circle", "ellipse"} => c.tolerance > 0

\* C16: whenever the tessellation service answers a shape call's request
\* with a failure, the call returns an error value, not Ok. (A degenerate
\* result the service itself ignores is no failure: it answers Ok.)
C16_NoErrorSwallowed ==
    [][(Tessellates(bcall') /\ ~tess_ok') => result'.tag = "Err"]_vars

\* The vertices the step appended.
NewVertices == After(Len(buffer.vertices), buffer'.vertices)

\* C17: every vertex triangles appends has the point given as its position
\* and as its UV and the linear encoding of the colour given as its colour;
\* every vertex a tessellating call appends has a position the tessellator
\* supplied, UV (0, 0) and the linear encoding of the call's colour.
C17_VertexConstruction ==
    [][/\ (bcall'.op = "triangles" /\ result'.tag = "Ok") =>
             NewVertices = [j \in 1..Len(bcall'.points) |->
                               [position |-> bcall'.points[j],
                                uv |-> bcall'.points[j],
                                color |-> <<"linear", bcall'.color>>]]
       /\ Tessellates(bcall') =>
             \A j \in 1..Len(NewVertices) :
                /\ NewVertices[j].position \in Range(bcall'.points)
                /\ NewVertices[j].uv = <<0, 0>>
                /\ NewVertices[j].color = <<"linear", bcall'.color>>]_vars

\* A Red stroke of three points appended to a White triangle of triangles.
C17_Witness ==
    /\ bcall.op = "polyline"
    /\ bcall.mode = "Stroke"
    /\ bcall.color = "Red"
    /\ result.tag = "Ok"
    /\ Len(buffer.vertices) = 6
    /\ buffer.vertices[1] = [position |-> Pt(1), uv |-> Pt(1),
                             color |-> <<"linear", "White">>]
    /\ buffer.vertices[6] = [position |-> Pt(3), uv |-> <<0, 0>>,
                             color |-> <<"linear", "Red">>]

\* The places of the quit_event calls in an iteration's record, and what
\* the last of them answered.
QuitCalls(f) == {i \in DOMAIN f : f[i].call = "quit_event"}

LastQuit(f) ==
    f[CHOOSE i \in QuitCalls(f) : \A j \in QuitCalls(f) : j <= i].ret

\* The step is one of run, not the arrival of an event.
RunSteps == counts'.events = counts.events

\* The step is run's dispatch of a Quit event.
DispatchesQuit ==
    /\ RunSteps
    /\ run_pc = "poll"
    /\ sdl_events # <<>>
    /\ Head(sdl_events).type = "Quit"

\* The step is run's return.
RunReturns == run_pc # "done" /\ run_pc' = "done"

\* C18 as claimed: a Quit event sets continuing to what quit_event returns,
\* and an iteration in which quit_event was called ends run only if the
\* last such call returned false, and then run returns Ok(()).
C18_QuitAloneDecidesReturn ==
    [][/\ DispatchesQuit =>
             continuing' = (frame'[Len(frame')].ret = "true")
       /\ (RunReturns /\ QuitCalls(frame') # {}) =>
             /\ LastQuit(frame') = "false"
             /\ run_result' = Ok]_vars

\* C18, amended: a Quit event sets continuing to what quit_event returns
\* and nothing else changes it; an iteration whose ctx.quit(), update and
\* draw calls all returned Ok leaves continuing as the iteration's last
\* quit_event call answered, and the loop's test then starts another
\* iteration if it is true and returns Ok(()) from run if it is false; run
\* returns otherwise only with the error of the ctx.quit(), update or draw
\* call (or of event_pump()) it has just made.
C18_QuitSetsContinuing ==
    [][/\ DispatchesQuit =>
             /\ frame'[Len(frame')].call = "quit_event"
             /\ continuing' = (frame'[Len(frame')].ret = "true")
       /\ continuing' # continuing => DispatchesQuit
       /\ (run_pc # "while" /\ run_pc' = "while" /\ QuitCalls(frame') # {}) =>
             continuing' = (LastQuit(frame') = "true")
       /\ (RunSteps /\ run_pc = "while") =>
             IF continuing
             THEN run_pc' = "tick" /\ run_result' = NoResult
             ELSE run_pc' = "done" /\ run_result' = Ok
       /\ (RunReturns /\ run_pc # "while") =>
             /\ run_result'.tag = "Err"
             /\ \/ run_pc = "event_pump"
                \/ /\ frame'[Len(frame')].call \in {"ctx.quit", "update", "draw"}
                   /\ frame'[Len(frame')].ret = "Err"]_vars

\* run has returned Ok(()) after an iteration that dispatched two Quit
\* events, the first answered true, the second false, and then called
\* update and draw.
C18_Witness ==
    /\ run_pc = "done"
    /\ run_result = Ok
    /\ Len(frame) = 5
    /\ frame[2] = Called("quit_event", "-", "true")
    /\ frame[3] = Called("quit_event", "-", "false")
    /\ frame[5].call = "draw"

\* C19: triangles with 3k points on a builder that holds n vertices appends
\* exactly 3k vertices and 3k indices; the appended indices are n, n + 1,
\* ..., n + 3k - 1 in order, and the j-th of them refers to the j-th
\* appended vertex, which is the j-th point.
C19_TrianglesIndexBase ==
    [][(bcall'.op = "triangles" /\ Len(bcall'.points) % 3 = 0) =>
          LET n == Len(buffer.vertices)
              m == Len(buffer.indices)
              len == Len(bcall'.points)
          IN /\ result'.tag = "Ok"
             /\ Len(buffer'.vertices) = n + len
             /\ Len(buffer'.indices) = m + len
             /\ \A j \in 1..len :
                   /\ buffer'.indices[m + j] = n + j - 1
                   /\ buffer'.vertices[buffer'.indices[m + j] + 1].position
                        = bcall'.points[j]]_vars

\* One triangle appended to a builder that held two vertices and no index
\* (a stroke of two points).
C19_Witness ==
    /\ bcall.op = "triangles"
    /\ Len(bcall.points) = 3
    /\ result.tag = "Ok"
    /\ buffer.indices = <<2, 3, 4>>
    /\ Len(buffer.vertices) = 5
    /\ buffer.vertices[3].position = Pt(1)
    /\ buffer.vertices[5].position = Pt(3)

\* C20: in every state of every mesh the vertex buffer it owns has
\* verts_capacity elements and the index buffer inds_capacity elements, so
\* what set_vertices / set_indices wrote in place at offset 0 (as many
\* elements as the count says) lies within the buffer, whose length no
\* write has changed.
C20_BufferSizeIsCapacity ==
    \A m \in DOMAIN meshes :
        /\ meshes[m].verts.size = meshes[m].verts_capacity
        /\ meshes[m].inds.size = meshes[m].inds_capacity
        /\ Len(meshes[m].verts.data) = meshes[m].verts.size
        /\ Len(meshes[m].inds.data) = meshes[m].inds.size
        /\ meshes[m].vertex_count <= meshes[m].verts.size
        /\ meshes[m].index_count <= meshes[m].inds.size

\* An in-place write of one index into an index buffer of two that a
\* reallocation created.
C20_Witness ==
    /\ last.op = "set_indices"
    /\ last.ni = 1
    /\ meshes[last.m].inds.size = 2
    /\ meshes[last.m].inds.handle > meshes[last.m].verts.handle + 1
    /\ meshes[last.m].index_count = 1

\* The calls an event may cause, by the event's variant and what it carries.
HandlersFor(event) ==
    CASE event.type = "Quit" -> {"quit_event"}
      [] event.type = "KeyDown" ->
            IF event.arg = "None" THEN {}
            ELSE IF event.arg = "Escape" THEN {"ctx.quit"} ELSE {"key_down_event"}
      [] event.type = "KeyUp" ->
            IF event.arg = "None" THEN {} ELSE {"key_up_event"}
      [] event.type = "MouseButtonDown" -> {"mouse_button_down_event"}
      [] event.type = "MouseButtonUp" -> {"mouse_button_up_event"}
      [] event.type = "MouseMotion" -> {"mouse_motion_event"}
      [] event.type = "MouseWheel" -> {"mouse_wheel_event"}
      [] event.type = "ControllerButtonDown" -> {"controller_button_down_event"}
      [] event.type = "ControllerButtonUp" -> {"controller_button_up_event"}
      [] event.type = "ControllerAxisMotion" -> {"controller_axis_event"}
      [] event.type = "Window" ->
            IF event.arg \in {"FocusGained", "FocusLost"}
            THEN {"focus_event"} ELSE {}
      [] OTHER -> {}

\* The places of the calls of `name` in an iteration's record.
Calls(f, name) == {i \in DOMAIN f : f[i].call = name}

\* An iteration's record is in order: the tick first, nothing after update
\* but draw, nothing after draw, draw only after an update that returned Ok.
InOrder(f) ==
    /\ f # <<>> => f[1].call = "tick"
    /\ Calls(f, "tick") \subseteq {1}
    /\ \A i \in Calls(f, "update") : i >= Len(f) - 1
    /\ \A i \in Calls(f, "draw") :
          /\ i = Len(f)
          /\ i > 1
          /\ f[i - 1] = Called("update", "dt", "Ok")

\* The step appends exactly one call to the iteration's record.
OneCall == Len(frame') = Len(frame) + 1 /\ SubSeq(frame', 1, Len(frame)) = frame

NewCall == frame'[Len(frame')]

\* What C21 says of one step of run; quit_may_fail tells whether an error
\* of ctx.quit() may end the dispatch of the events.
IterationStep(quit_may_fail) ==
    RunSteps =>
      /\ InOrder(frame')
      /\ run_pc = "tick" =>
            /\ frame' = <<Called("tick", "-", "()")>>
            /\ run_pc' = "poll"
      /\ (run_pc = "poll" /\ sdl_events = <<>>) =>
            /\ frame' = frame
            /\ run_pc' = "update"
      /\ (run_pc = "poll" /\ sdl_events # <<>>) =>
            /\ sdl_events' = Tail(sdl_events)
            /\ IF HandlersFor(Head(sdl_events)) = {}
               THEN frame' = frame
               ELSE OneCall /\ NewCall.call \in HandlersFor(Head(sdl_events))
            /\ IF quit_may_fail /\ OneCall /\ NewCall = Called("ctx.quit", "-", "Err")
               THEN RunReturns /\ run_result' = Err("ctx.quit")
               ELSE run_pc' = "poll"
      /\ run_pc = "update" =>
            /\ OneCall
            /\ NewCall.call = "update"
            /\ IF NewCall.ret = "Ok"
               THEN run_pc' = "draw"
               ELSE RunReturns /\ run_result' = Err("update")
      /\ run_pc = "draw" =>
            /\ OneCall
            /\ NewCall.call = "draw"
            /\ IF NewCall.ret = "Ok"
               THEN run_pc' = "sleep"
               ELSE RunReturns /\ run_result' = Err("draw")
      /\ run_pc = "sleep" =>
            /\ frame' = frame
            /\ run_pc' = "while"
            /\ Cardinality(Calls(frame, "update")) = 1
            /\ Cardinality(Calls(frame, "draw")) = 1

\* C21 as claimed: every iteration ticks, dispatches every pending event in
\* the order polled, then calls update once and draw once; only an error of
\* update (before draw is called) or of draw ends run within an iteration.
C21_OnlyUpdateOrDrawEndIteration ==
    [][IterationStep(FALSE)]_vars

\* C21, amended: every iteration ticks, then dispatches the pending events
\* in the order polled, then calls update once and draw once; an error of
\* ctx.quit() ends run at once with the remaining events undispatched and
\* update and draw not called, an error of update ends it with draw not
\* called, and an error of draw ends it.
C21_IterationOrder ==
    [][IterationStep(TRUE)]_vars

\* An iteration that dispatched two events in the order they arrived and
\* called update and draw has ended.
C21_Witness ==
    /\ run_pc = "while"
    /\ Len(frame) = 5
    /\ frame[1].call = "tick"
    /\ frame[2].call = "key_up_event"
    /\ frame[3].call = "focus_event"
    /\ frame[4] = Called("update", "dt", "Ok")
    /\ frame[5] = Called("draw", "-", "Ok")

QuitRefused(f) == \E i \in QuitCalls(f) : f[i].ret = "false"

\* What run does in an iteration from the moment quit_event has answered
\* false; with may_fail, a failing ctx.quit(), update or draw ends run.
AfterRefusalStep(may_fail) ==
    /\ (DispatchesQuit /\ frame'[Len(frame')].ret = "false") =>
          /\ ~continuing'
          /\ run_pc' = "poll"
    /\ (RunSteps /\ QuitRefused(frame)) =>
          /\ (run_pc = "poll" /\ sdl_events # <<>>) =>
                /\ sdl_events' = Tail(sdl_events)
                /\ IF HandlersFor(Head(sdl_events)) = {}
                   THEN frame' = frame
                   ELSE OneCall /\ NewCall.call \in HandlersFor(Head(sdl_events))
                /\ Head(sdl_events).type = "Quit" =>
                      continuing' = (NewCall.ret = "true")
                /\ IF may_fail /\ OneCall /\ NewCall = Called("ctx.quit", "-", "Err")
                   THEN RunReturns /\ run_result' = Err("ctx.quit")
                   ELSE run_pc' = "poll"
          /\ (run_pc = "poll" /\ sdl_events = <<>>) =>
                /\ run_pc' = "update"
                /\ Calls(frame, "update") = {}
                /\ Calls(frame, "draw") = {}
          /\ run_pc = "update" =>
                /\ OneCall
                /\ NewCall.call = "update"
                /\ IF may_fail /\ NewCall.ret = "Err"
                   THEN RunReturns /\ run_result' = Err("update")
                   ELSE run_pc' = "draw"
          /\ run_pc = "draw" =>
                /\ OneCall
                /\ NewCall.call = "draw"
                /\ IF may_fail /\ NewCall.ret = "Err"
                   THEN RunReturns /\ run_result' = Err("draw")
                   ELSE run_pc' = "sleep"
          /\ run_pc = "sleep" => run_pc' = "while"
          /\ run_pc = "while" =>
                /\ Cardinality(Calls(frame, "update")) = 1
                /\ Cardinality(Calls(frame, "draw")) = 1
                /\ continuing = (LastQuit(frame) = "true")
                /\ IF continuing
                   THEN run_pc' = "tick"
                   ELSE RunReturns /\ run_result' = Ok

\* C23 as claimed: once quit_event has answered false, every remaining
\* event of the batch is still dispatched, update and draw are each called
\* once, and only then is the loop's condition tested and run returns.
C23_AlwaysFinishesIteration ==
    [][AfterRefusalStep(FALSE)]_vars

\* C23, amended: once quit_event has answered false the loop goes on: the
\* remaining events of the batch are dispatched (a later Quit sets the flag
\* to its own answer), update and draw are each called once, and then the
\* loop's condition is tested and run returns if the flag is still false;
\* but a ctx.quit(), update or draw call that returns an error ends run at
\* once with that error.
C23_RefusedQuitFinishesIteration ==
    [][AfterRefusalStep(TRUE)]_vars

\* run has returned Ok(()) after an iteration in which quit_event answered
\* false, a later key of the same batch was dispatched, and update and draw
\* were called.
C23_Witness ==
    /\ run_pc = "done"
    /\ run_result = Ok
    /\ frame = <<Called("tick", "-", "()"), Called("quit_event", "-", "false"),
                 Called("key_down_event", "A", "()"),
                 Called("update", "dt", "Ok"), Called("draw", "-", "Ok")>>

\* The fields of a mesh that belong to its vertices, and to its indices.
VertexSide == {"verts", "verts_capacity", "vertex_count"}

IndexSide == {"inds", "inds_capacity", "index_count"}

\* C24: set_vertices changes no field of the mesh outside the vertex side
\* (so the index buffer, inds_capacity and index_count stay) except id, and
\* set_indices none outside the index side (so the vertex buffer,
\* verts_capacity and vertex_count stay) except id; id changes only when
\* the call reallocates, that is when the new length exceeds the capacity.
C24_OtherSideUntouched ==
    [][\A m \in DOMAIN meshes :
          /\ CallOn("set_vertices", m) =>
                /\ \A f \in DOMAIN meshes[m] \ (VertexSide \cup {"id"}) :
                      meshes'[m][f] = meshes[m][f]
                /\ IndexSide \subseteq DOMAIN meshes[m] \ (VertexSide \cup {"id"})
                /\ meshes'[m].id # meshes[m].id =>
                      last'.nv > meshes[m].verts_capacity
          /\ CallOn("set_indices", m) =>
                /\ \A f \in DOMAIN meshes[m] \ (IndexSide \cup {"id"}) :
                      meshes'[m][f] = meshes[m][f]
                /\ VertexSide \subseteq DOMAIN meshes[m] \ (IndexSide \cup {"id"})
                /\ meshes'[m].id # meshes[m].id =>
                      last'.ni > meshes[m].inds_capacity]_vars

\* The last call was a reallocating set_vertices on a mesh that uses one
\* index of an index buffer of two.
C24_Witness ==
    /\ last.op = "set_vertices"
    /\ meshes[last.m].verts.handle > meshes[last.m].inds.handle
    /\ meshes[last.m].verts_capacity = last.nv
    /\ meshes[last.m].index_count = 1
    /\ meshes[last.m].inds_capacity = 2
    /\ meshes[last.m].id = issued[Len(issued)]

=============================================================================
